---- MODULE Spec2Model ----
(***************************************************************************)
(* State-machine model of static/js/script.js (VaxSafe): the               *)
(* DOMContentLoaded handler and the scroll and click listeners it          *)
(* registers.  The document is a fixed universe of elements; the host      *)
(* (browser, user, other scripts) supplies scroll offsets, layout          *)
(* positions, href values and insertions/removals of elements.             *)
(***************************************************************************)
EXTENDS Integers, Sequences, FiniteSets, TLC

VARIABLES
    loaded,          \* TRUE once the DOMContentLoaded handler has run
    doc,             \* elements currently attached to the document
    classList,       \* element -> set of class names (live)
    scrollY,         \* window.scrollY
    top,             \* reveal element -> getBoundingClientRect().top
    scrollListeners, \* listeners registered on window "scroll", in order
    clickListeners,  \* element -> listeners registered on it for "click", in order
    links,           \* the NodeList captured by `const links`
    revealElements,  \* the NodeList captured by `const revealElements`
    ev               \* record of the last event dispatched and what its handlers did

vars == <<loaded, doc, classList, scrollY, top, scrollListeners,
          clickListeners, links, revealElements, ev>>

----------------------------------------------------------------------------
(* Program constants *)

\* script.js:6   window.scrollY > 50
StickyThreshold == 50

\* script.js:44  rect.top < window.innerHeight - 100
RevealMargin == 100

(* Environment bounds *)

\* window.innerHeight
InnerHeight == 700

\* offsets the host may scroll to
ScrollOffsets == {0, StickyThreshold, StickyThreshold + 1}

\* positions the layout may give a reveal element's top edge
Tops == {InnerHeight - RevealMargin - 1, InnerHeight - RevealMargin,
         InnerHeight + 1000}

----------------------------------------------------------------------------
(* The page: a fixed universe of elements, in document order *)

DocOrder == <<"navbar", "L1", "L2", "L3", "B5", "late", "A4",
              "S2", "Sab", "Sa", "R1", "R2">>

Elements == {DocOrder[i] : i \in 1..Len(DocOrder)}

Null == "null"

\* tag name of each element
tag == [e \in Elements |->
          CASE e \in {"L1", "L2", "L3", "A4", "late"} -> "a"
            [] e = "B5" -> "button"
            [] e = "navbar" -> "nav"
            [] OTHER -> "section"]

\* classes carried by some ancestor of the element
ancestorClasses == [e \in Elements |->
          IF e \in {"L1", "L2", "L3", "B5", "late"} THEN {"nav-links"} ELSE {}]

\* id attribute ("" when there is none)
idAttr == [e \in Elements |->
          CASE e = "S2" -> "s2"
            [] e = "Sab" -> "a.b"
            [] e = "Sa" -> "a"
            [] OTHER -> ""]

\* class attribute in the page's markup
markupClasses == [e \in Elements |->
          CASE e = "navbar" -> {"navbar"}
            [] e \in {"L3", "B5"} -> {"btn"}
            [] e \in {"R1", "R2"} -> {"reveal"}
            [] e = "late" -> {"btn", "reveal"}
            [] e = "Sa" -> {"b"}
            [] OTHER -> {}]

\* elements inserted or removed by the host after parsing
Dynamic == {"navbar", "late"}

\* elements not in the parsed markup, only inserted later: a link in the
\* navigation list, styled as a button and marked for the reveal effect
Late == {"late"}

\* elements the user clicks
Clickable == {"L1", "L2", "L3", "A4", "B5", "late", "S2"}

\* href attribute values, as sequences of characters
Hrefs == { <<>>,                       \* href=""
           <<"#">>,                    \* href="#"
           <<"#", "s", "2">>,          \* href="#s2"     (id s2 exists)
           <<"#", "m">>,               \* href="#m"      (no such id)
           <<"#", "1", "a">>,          \* href="#1a"     (no such id)
           <<"#", "a", ".", "b">> }    \* href="#a.b"    (id a.b exists)

\* the href values each link may carry when it is clicked
HrefsOf == [e \in Elements |->
          CASE e \in {"L1", "A4"} -> Hrefs
            [] e = "L2" -> { <<"#">>, <<"#", "s", "2">> }
            [] e = "L3" -> { <<"#", "m">>, <<"#", "s", "2">> }
            [] e = "late" -> { <<"#", "s", "2">> }
            [] OTHER -> { <<>> }]

Letters == {"a", "b", "m", "s"}
Digits == {"1", "2"}

\* value of a property the element does not have
Undefined == <<"undefined">>

----------------------------------------------------------------------------
(* DOM helpers *)

RECURSIVE Join(_)
\* the string spelled by a sequence of characters
Join(chars) ==
    IF chars = <<>> THEN "" ELSE Head(chars) \o Join(Tail(chars))

\* index in document order
RECURSIVE IndexOf(_, _)
IndexOf(e, i) ==
    IF DocOrder[i] = e THEN i ELSE IndexOf(e, i + 1)

\* document.querySelector: the first element, in document order, of the
\* elements that match; null when none matches
querySelector(matching) ==
    IF matching = {} THEN Null
    ELSE CHOOSE e \in matching :
            \A f \in matching : IndexOf(e, 1) <= IndexOf(f, 1)

\* elements of document d matching the selector "a, .btn" (each once)
MatchesAOrBtn(d, cl) ==
    {e \in d : tag[e] = "a" \/ "btn" \in cl[e]}

\* elements of document d matching ".nav-links a"
MatchesNavLinksA(d, cl) ==
    {e \in d : tag[e] = "a" /\ "nav-links" \in ancestorClasses[e]}

\* elements of document d matching the class selector "." c
MatchesClass(d, cl, c) ==
    {e \in d : c \in cl[e]}

\* HTMLAnchorElement.hash for the href the element carries: "" when the URL
\* has no fragment or an empty one, otherwise "#" and the fragment; elements
\* that are not links have no hash property
HashOf(e, href) ==
    IF tag[e] # "a" THEN Undefined
    ELSE LET at == {i \in 1..Len(href) : href[i] = "#"}
         IN IF at = {} THEN <<>>
            ELSE LET i == CHOOSE j \in at : \A k \in at : j <= k
                 IN IF i = Len(href) THEN <<>> ELSE SubSeq(href, i, Len(href))

RECURSIVE SplitDots(_)
\* the segments of a character sequence between its "." characters
SplitDots(s) ==
    IF s = <<>> THEN << <<>> >>
    ELSE LET rest == SplitDots(Tail(s))
         IN IF Head(s) = "." THEN << <<>> >> \o rest
            ELSE << <<Head(s)>> \o Head(rest) >> \o Tail(rest)

\* a CSS identifier: a letter, then letters and digits
IsIdent(s) ==
    /\ Len(s) > 0
    /\ s[1] \in Letters
    /\ \A i \in 1..Len(s) : s[i] \in Letters \cup Digits

\* the string "#..." read as a CSS selector: "#" ident ("." ident)*, that is an
\* id selector followed by class selectors; anything else is a syntax error
ParseSelector(sel) ==
    LET segs == SplitDots(Tail(sel))
        ok == \A i \in 1..Len(segs) : IsIdent(segs[i])
    IN IF ok
       THEN [ok |-> TRUE, id |-> Join(segs[1]),
             classes |-> {Join(segs[i]) : i \in 2..Len(segs)}]
       ELSE [ok |-> FALSE, id |-> "", classes |-> {}]

\* elements of document d matching a parsed "#id.class..." selector
MatchesSelector(d, cl, sel) ==
    {e \in d : idAttr[e] = sel.id /\ sel.classes \subseteq cl[e]}

----------------------------------------------------------------------------
(* Listeners.  A listener maps the dispatch context st to the context after *)
(* it ran: st.classList, st.defaultPrevented, st.scrollIntoViewCalls,       *)
(* st.errors (uncaught exceptions, reported by the host; the remaining      *)
(* listeners still run) and st.log (listeners in the order they ran).       *)

\* variant: the threshold test reads >= instead of >
StickyNavbarListener_AtThreshold(st, d, y) ==
    LET st1 == [st EXCEPT !.log = Append(@, "stickyNavbar")]
        navbar == querySelector(MatchesClass(d, st.classList, "navbar"))
    IN IF navbar # Null
       THEN IF y >= StickyThreshold
            THEN [st1 EXCEPT !.classList[navbar] = @ \cup {"sticky"}]
            ELSE [st1 EXCEPT !.classList[navbar] = @ \ {"sticky"}]
       ELSE st1

\* variant: the existence check on the navbar is missing, so a null navbar
\* is dereferenced
StickyNavbarListener_Unguarded(st, d, y) ==
    LET st1 == [st EXCEPT !.log = Append(@, "stickyNavbar")]
        navbar == querySelector(MatchesClass(d, st.classList, "navbar"))
    IN IF navbar = Null
       THEN [st1 EXCEPT !.errors = Append(@, "TypeError")]
       ELSE IF y > StickyThreshold
            THEN [st1 EXCEPT !.classList[navbar] = @ \cup {"sticky"}]
            ELSE [st1 EXCEPT !.classList[navbar] = @ \ {"sticky"}]

\* variant: past the threshold the class is toggled instead of added
StickyNavbarListener_Toggle(st, d, y) ==
    LET st1 == [st EXCEPT !.log = Append(@, "stickyNavbar")]
        navbar == querySelector(MatchesClass(d, st.classList, "navbar"))
    IN IF navbar # Null
       THEN IF y > StickyThreshold
            THEN IF "sticky" \in st.classList[navbar]
                 THEN [st1 EXCEPT !.classList[navbar] = @ \ {"sticky"}]
                 ELSE [st1 EXCEPT !.classList[navbar] = @ \cup {"sticky"}]
            ELSE [st1 EXCEPT !.classList[navbar] = @ \ {"sticky"}]
       ELSE st1

\* variant: at the top of the page the listener also clears the active link
\* (the highlight follows the scroll position)
StickyNavbarListener_ScrollSpy(st, d, y) ==
    LET st1 == [st EXCEPT !.log = Append(@, "stickyNavbar")]
        navbar == querySelector(MatchesClass(d, st.classList, "navbar"))
    IN IF navbar # Null
       THEN IF y > StickyThreshold
            THEN [st1 EXCEPT !.classList[navbar] = @ \cup {"sticky"}]
            ELSE [st1 EXCEPT !.classList =
                     [e \in Elements |->
                        IF e = navbar THEN st.classList[e] \ {"sticky"}
                        ELSE st.classList[e] \ {"active"}]]
       ELSE st1

\* variant: the navbar is a reference kept from an earlier lookup, used
\* whether or not the element is still in the document
StickyNavbarListener_KeptReference(st, d, y) ==
    LET st1 == [st EXCEPT !.log = Append(@, "stickyNavbar")]
        navbar == querySelector(MatchesClass(Elements, st.classList, "navbar"))
    IN IF navbar # Null
       THEN IF y > StickyThreshold
            THEN [st1 EXCEPT !.classList[navbar] = @ \cup {"sticky"}]
            ELSE [st1 EXCEPT !.classList[navbar] = @ \ {"sticky"}]
       ELSE st1

\* script.js:3-12
StickyNavbarListener(st, d, y) ==
    LET st1 == [st EXCEPT !.log = Append(@, "stickyNavbar")]
        navbar == querySelector(MatchesClass(d, st.classList, "navbar"))
    IN IF navbar # Null
       THEN IF y > StickyThreshold
            THEN [st1 EXCEPT !.classList[navbar] = @ \cup {"sticky"}]
            ELSE [st1 EXCEPT !.classList[navbar] = @ \ {"sticky"}]
       ELSE st1

\* variant: preventDefault is called before the fragment test
SmoothScrollListener_AlwaysPrevent(this, hash, st, d) ==
    LET st1 == [st EXCEPT !.log = Append(@, "smoothScroll"),
                          !.defaultPrevented = TRUE]
    IN IF hash = Undefined
       THEN [st1 EXCEPT !.errors = Append(@, "TypeError")]
       ELSE IF hash # <<>> /\ hash[1] = "#"
       THEN LET sel == ParseSelector(hash)
            IN IF ~sel.ok
               THEN [st1 EXCEPT !.errors = Append(@, "SyntaxError")]
               ELSE LET target == querySelector(
                                    MatchesSelector(d, st.classList, sel))
                    IN IF target # Null
                       THEN [st1 EXCEPT !.scrollIntoViewCalls =
                               Append(@, [target |-> target,
                                          behavior |-> "smooth",
                                          block |-> "start"])]
                       ELSE st1
       ELSE st1

\* script.js:16-27
SmoothScrollListener(this, hash, st, d) ==
    LET st1 == [st EXCEPT !.log = Append(@, "smoothScroll")]
    IN IF hash = Undefined
       THEN \* undefined !== "" holds; undefined.startsWith throws
            [st1 EXCEPT !.errors = Append(@, "TypeError")]
       ELSE IF hash # <<>> /\ hash[1] = "#"
       THEN LET st2 == [st1 EXCEPT !.defaultPrevented = TRUE]
                sel == ParseSelector(hash)
            IN IF ~sel.ok
               THEN [st2 EXCEPT !.errors = Append(@, "SyntaxError")]
               ELSE LET target == querySelector(
                                    MatchesSelector(d, st.classList, sel))
                    IN IF target # Null
                       THEN [st2 EXCEPT !.scrollIntoViewCalls =
                               Append(@, [target |-> target,
                                          behavior |-> "smooth",
                                          block |-> "start"])]
                       ELSE st2
       ELSE st1

\* variant: the clicked link is marked without clearing the others
ActiveLinkListener_NoClear(link, st, ls) ==
    [st EXCEPT !.log = Append(@, "activeLink"),
               !.classList[link] = @ \cup {"active"}]

\* script.js:33-36
ActiveLinkListener(link, st, ls) ==
    LET removed == [e \in Elements |->
                      IF e \in ls THEN st.classList[e] \ {"active"}
                      ELSE st.classList[e]]
    IN [st EXCEPT !.log = Append(@, "activeLink"),
                  !.classList = [removed EXCEPT ![link] = @ \cup {"active"}]]

\* variant: the class follows the predicate both ways (toggle)
revealOnScroll_Sync(st, els, tp, h) ==
    [st EXCEPT !.log = Append(@, "revealOnScroll"),
               !.classList = [e \in Elements |->
                    IF e \in els
                    THEN IF tp[e] < h - RevealMargin
                         THEN st.classList[e] \cup {"visible"}
                         ELSE st.classList[e] \ {"visible"}
                    ELSE st.classList[e]]]

\* variant: the comparison reads <= instead of <
revealOnScroll_AtMargin(st, els, tp, h) ==
    [st EXCEPT !.log = Append(@, "revealOnScroll"),
               !.classList = [e \in Elements |->
                    IF e \in els /\ tp[e] <= h - RevealMargin
                    THEN st.classList[e] \cup {"visible"}
                    ELSE st.classList[e]]]

\* variant: every tracked element is marked, whatever its position
revealOnScroll_Unconditional(st, els, tp, h) ==
    [st EXCEPT !.log = Append(@, "revealOnScroll"),
               !.classList = [e \in Elements |->
                    IF e \in els
                    THEN st.classList[e] \cup {"visible"}
                    ELSE st.classList[e]]]

\* script.js:41-48
revealOnScroll(st, els, tp, h) ==
    [st EXCEPT !.log = Append(@, "revealOnScroll"),
               !.classList = [e \in Elements |->
                    IF e \in els /\ tp[e] < h - RevealMargin
                    THEN st.classList[e] \cup {"visible"}
                    ELSE st.classList[e]]]

\* the context at the start of a dispatch
StartContext(cl) ==
    [classList |-> cl, defaultPrevented |-> FALSE,
     scrollIntoViewCalls |-> <<>>, errors |-> <<>>, log |-> <<>>]

RECURSIVE RunClickListeners_StopOnPrevent(_, _, _, _)
\* variant: once a listener has suppressed the default action, the remaining
\* listeners of the element are not run
RunClickListeners_StopOnPrevent(ls, e, hash, st) ==
    IF ls = <<>> \/ st.defaultPrevented THEN st
    ELSE LET st1 == IF Head(ls) = "smoothScroll"
                    THEN SmoothScrollListener(e, hash, st, doc)
                    ELSE ActiveLinkListener(e, st, links)
         IN RunClickListeners_StopOnPrevent(Tail(ls), e, hash, st1)

RECURSIVE RunClickListeners(_, _, _, _)
\* the click listeners of element e, run in registration order
RunClickListeners(ls, e, hash, st) ==
    IF ls = <<>> THEN st
    ELSE LET st1 == IF Head(ls) = "smoothScroll"
                    THEN SmoothScrollListener(e, hash, st, doc)
                    ELSE ActiveLinkListener(e, st, links)
         IN RunClickListeners(Tail(ls), e, hash, st1)

RECURSIVE RunScrollListeners_LiveQuery(_, _, _, _)
\* variant: the reveal elements are queried anew at every scroll event
RunScrollListeners_LiveQuery(ls, st, y, tp) ==
    IF ls = <<>> THEN st
    ELSE LET st1 == IF Head(ls) = "stickyNavbar"
                    THEN StickyNavbarListener(st, doc, y)
                    ELSE revealOnScroll(st,
                            MatchesClass(doc, st.classList, "reveal"),
                            tp, InnerHeight)
         IN RunScrollListeners_LiveQuery(Tail(ls), st1, y, tp)

RECURSIVE RunScrollListeners(_, _, _, _)
\* the scroll listeners of window, run in registration order
RunScrollListeners(ls, st, y, tp) ==
    IF ls = <<>> THEN st
    ELSE LET st1 == IF Head(ls) = "stickyNavbar"
                    THEN StickyNavbarListener(st, doc, y)
                    ELSE revealOnScroll(st, revealElements, tp, InnerHeight)
         IN RunScrollListeners(Tail(ls), st1, y, tp)

\* what ev keeps of a dispatch
EventRecord(type, target, href, st) ==
    [type |-> type, target |-> target, href |-> href,
     defaultPrevented |-> st.defaultPrevented,
     scrollIntoViewCalls |-> st.scrollIntoViewCalls,
     errors |-> st.errors, log |-> st.log]

----------------------------------------------------------------------------
(* Initial state: the parsed page, before DOMContentLoaded *)

\* elements whose layout position the script may read
RevealMarked == {e \in Elements : "reveal" \in markupClasses[e]}

\* layouts: the late reveal element is always laid out in view
Layouts == {tp \in [RevealMarked -> Tops] :
               tp["late"] = InnerHeight - RevealMargin - 1}

\* marker classes the markup itself may carry
Markups == {[e \in Elements |->
               markupClasses[e]
                 \cup (IF e = "navbar" /\ s THEN {"sticky"} ELSE {})
                 \cup (IF e = "L1" /\ a THEN {"active"} ELSE {})
                 \cup (IF e = "R1" /\ v THEN {"visible"} ELSE {})] :
             s \in BOOLEAN, a \in BOOLEAN, v \in BOOLEAN}

Init ==
    /\ loaded = FALSE
    /\ doc \in {(Elements \ Dynamic) \cup n : n \in SUBSET {"navbar"}}
    /\ classList \in Markups
    /\ scrollY \in ScrollOffsets
    /\ top \in Layouts
    /\ scrollListeners = <<>>
    /\ clickListeners = [e \in Elements |-> <<>>]
    /\ links = {}
    /\ revealElements = {}
    /\ ev = EventRecord("none", Null, <<>>, StartContext(classList))

----------------------------------------------------------------------------
(* Actions *)

\* variant: the active-link listeners are registered before the smooth-scroll
\* interceptors, and revealOnScroll before the sticky listener
DOMContentLoaded_SwappedRegistration ==
    /\ ~loaded
    /\ loaded' = TRUE
    /\ scrollListeners' = <<"revealOnScroll", "stickyNavbar">>
    /\ links' = MatchesNavLinksA(doc, classList)
    /\ revealElements' = MatchesClass(doc, classList, "reveal")
    /\ clickListeners' = [e \in Elements |->
            (IF e \in links' THEN <<"activeLink">> ELSE <<>>)
            \o (IF e \in MatchesAOrBtn(doc, classList)
                THEN <<"smoothScroll">> ELSE <<>>)]
    /\ LET st == revealOnScroll(StartContext(classList), revealElements',
                                top, InnerHeight)
       IN /\ classList' = st.classList
          /\ ev' = EventRecord("DOMContentLoaded", Null, <<>>, st)
    /\ UNCHANGED <<doc, scrollY, top>>

\* variant: initialization marks the first captured nav-link active
DOMContentLoaded_MarksFirstLink ==
    /\ ~loaded
    /\ loaded' = TRUE
    /\ scrollListeners' = <<"stickyNavbar", "revealOnScroll">>
    /\ links' = MatchesNavLinksA(doc, classList)
    /\ revealElements' = MatchesClass(doc, classList, "reveal")
    /\ clickListeners' = [e \in Elements |->
            (IF e \in MatchesAOrBtn(doc, classList)
             THEN <<"smoothScroll">> ELSE <<>>)
            \o (IF e \in links' THEN <<"activeLink">> ELSE <<>>)]
    /\ LET st == revealOnScroll(StartContext(classList), revealElements',
                                top, InnerHeight)
           first == querySelector(links')
       IN /\ classList' = [e \in Elements |->
                              IF e = first THEN st.classList[e] \cup {"active"}
                              ELSE st.classList[e]]
          /\ ev' = EventRecord("DOMContentLoaded", Null, <<>>, st)
    /\ UNCHANGED <<doc, scrollY, top>>

\* variant: the sticky rule is evaluated once on load, like the reveal check
DOMContentLoaded_EvaluatesSticky ==
    /\ ~loaded
    /\ loaded' = TRUE
    /\ scrollListeners' = <<"stickyNavbar", "revealOnScroll">>
    /\ links' = MatchesNavLinksA(doc, classList)
    /\ revealElements' = MatchesClass(doc, classList, "reveal")
    /\ clickListeners' = [e \in Elements |->
            (IF e \in MatchesAOrBtn(doc, classList)
             THEN <<"smoothScroll">> ELSE <<>>)
            \o (IF e \in links' THEN <<"activeLink">> ELSE <<>>)]
    /\ LET st0 == StickyNavbarListener(StartContext(classList), doc, scrollY)
           st == revealOnScroll(st0, revealElements', top, InnerHeight)
       IN /\ classList' = st.classList
          /\ ev' = EventRecord("DOMContentLoaded", Null, <<>>, st)
    /\ UNCHANGED <<doc, scrollY, top>>

\* script.js:1-52  the DOMContentLoaded handler
DOMContentLoaded ==
    /\ ~loaded
    /\ loaded' = TRUE
    /\ scrollListeners' = <<"stickyNavbar", "revealOnScroll">>
    /\ links' = MatchesNavLinksA(doc, classList)
    /\ revealElements' = MatchesClass(doc, classList, "reveal")
    /\ clickListeners' = [e \in Elements |->
            (IF e \in MatchesAOrBtn(doc, classList)
             THEN <<"smoothScroll">> ELSE <<>>)
            \o (IF e \in links' THEN <<"activeLink">> ELSE <<>>)]
    /\ LET st == revealOnScroll(StartContext(classList), revealElements',
                                top, InnerHeight)
       IN /\ classList' = st.classList
          /\ ev' = EventRecord("DOMContentLoaded", Null, <<>>, st)
    /\ UNCHANGED <<doc, scrollY, top>>

\* the host scrolls to offset y, the layout becomes tp, and a scroll event
\* is dispatched on window
Scroll(y, tp) ==
    /\ loaded
    /\ scrollY' = y
    /\ top' = tp
    /\ LET st == RunScrollListeners(scrollListeners, StartContext(classList),
                                    y, tp)
       IN /\ classList' = st.classList
          /\ ev' = EventRecord("scroll", Null, <<>>, st)
    /\ UNCHANGED <<loaded, doc, scrollListeners, clickListeners, links,
                   revealElements>>

\* the user clicks element e, which carries href at that moment
Click(e, href) ==
    /\ loaded
    /\ e \in doc
    /\ LET st == RunClickListeners(clickListeners[e], e, HashOf(e, href),
                                   StartContext(classList))
       IN /\ classList' = st.classList
          /\ ev' = EventRecord("click", e, href, st)
    /\ UNCHANGED <<loaded, doc, scrollY, top, scrollListeners,
                   clickListeners, links, revealElements>>

\* the host inserts element e into the document after initialization
AddElement(e) ==
    /\ loaded
    /\ e \notin doc
    /\ doc' = doc \cup {e}
    /\ ev' = EventRecord("insert", e, <<>>, StartContext(classList))
    /\ UNCHANGED <<loaded, classList, scrollY, top, scrollListeners,
                   clickListeners, links, revealElements>>

\* the host removes element e from the document
RemoveElement(e) ==
    /\ loaded
    /\ e \in doc
    /\ doc' = doc \ {e}
    /\ ev' = EventRecord("remove", e, <<>>, StartContext(classList))
    /\ UNCHANGED <<loaded, classList, scrollY, top, scrollListeners,
                   clickListeners, links, revealElements>>

Next ==
    \/ DOMContentLoaded
    \/ \E y \in ScrollOffsets, tp \in Layouts : Scroll(y, tp)
    \/ \E e \in Clickable :
          \E href \in HrefsOf[e] : Click(e, href)
    \/ \E e \in Dynamic : AddElement(e)
    \/ \E e \in Dynamic : RemoveElement(e)

Spec == Init /\ [][Next]_vars

\* a page whose markup carries none of the three marker classes
InitUnmarked ==
    /\ Init
    /\ \A e \in Elements : classList[e] = markupClasses[e]

\* the script on a page without marker classes in its markup
SpecUnmarked == InitUnmarked /\ [][Next]_vars

----------------------------------------------------------------------------
(* Properties *)

\* the element the sticky listener would find now
CurrentNavbar == querySelector(MatchesClass(doc, classList, "navbar"))

\* the reveal predicate of script.js:44 for a top edge t
InRevealRange(t) == t < InnerHeight - RevealMargin

\* elements that received the smooth-scroll click interceptor
SmoothSources ==
    {e \in Elements :
        \E i \in 1..Len(clickListeners[e]) : clickListeners[e][i] = "smoothScroll"}

\* the fragment identifier of a non-empty hash, as a string
FragmentOf(hash) == Join(Tail(hash))

\* the element whose id attribute is the given identifier (null if none)
ElementWithId(id) == querySelector({e \in doc : idAttr[e] = id})

\* elements carrying class c
Carrying(c) == {e \in Elements : c \in classList[e]}

\* C1: after any click on a nav-link captured at initialization, exactly one
\* captured nav-link carries the active class, and it is the clicked one (so
\* after any sequence of such clicks only the last clicked link is active).
C1_OnlyClickedLinkActive ==
    (ev.type = "click" /\ ev.target \in links)
        => (Carrying("active") \cap links = {ev.target})

\* C1 witness: L3 was clicked, three links are captured, L3 alone is active.
C1_Witness ==
    /\ ev.type = "click" /\ ev.target = "L3"
    /\ {"L1", "L2", "L3"} \subseteq links
    /\ Carrying("active") = {"L3"}

\* C2: when a navbar exists, after every scroll event it carries the sticky
\* class exactly when the current offset is strictly greater than 50,
\* whatever the earlier offsets and the earlier class state were.
C2_StickyIffPastThreshold ==
    (ev.type = "scroll" /\ CurrentNavbar # Null)
        => (("sticky" \in classList[CurrentNavbar]) <=> (scrollY > StickyThreshold))

\* C2 witness: a scroll event at offset exactly 50 left the navbar not sticky.
C2_Witness ==
    /\ ev.type = "scroll" /\ CurrentNavbar = "navbar"
    /\ scrollY = StickyThreshold
    /\ "sticky" \notin classList["navbar"]

\* C3: a tracked reveal element that carries the visible class carries it
\* after every step (scroll, click, insertion, removal), also when its top
\* edge has moved out of the reveal range again.
C3_VisibleNeverRemoved ==
    [][\A e \in revealElements :
          "visible" \in classList[e] => "visible" \in classList'[e]]_vars

\* C3 witness: after a scroll event R2 is out of the reveal range and still
\* carries the visible class (its markup never had it).
C3_Witness ==
    /\ ev.type = "scroll"
    /\ "R2" \in revealElements
    /\ ~InRevealRange(top["R2"])
    /\ "visible" \in classList["R2"]

\* C4: right after initialization and after every scroll event, every tracked
\* reveal element whose top is strictly less than innerHeight - 100 carries
\* the visible class; for an element whose top is innerHeight - 100 or more
\* that evaluation leaves the visible class as it was.
C4_RevealEvaluation ==
    [][(ev'.type \in {"DOMContentLoaded", "scroll"}) =>
          \A e \in revealElements' :
             /\ InRevealRange(top'[e]) => "visible" \in classList'[e]
             /\ ~InRevealRange(top'[e]) =>
                   ("visible" \in classList'[e] <=> "visible" \in classList[e])
      ]_vars

\* C4 witness: right after initialization R2 (in range) is visible and R1,
\* whose top is exactly innerHeight - 100, is not.
C4_Witness ==
    /\ ev.type = "DOMContentLoaded"
    /\ {"R1", "R2"} \subseteq revealElements
    /\ InRevealRange(top["R2"]) /\ "visible" \in classList["R2"]
    /\ top["R1"] = InnerHeight - RevealMargin
    /\ "visible" \notin classList["R1"]

\* C5: a click on a captured link whose fragment is non-empty and names the
\* id of an existing element suppresses the default navigation and issues
\* exactly one smooth, top-aligned scrollIntoView on that element.
C5_ScrollToExistingTarget ==
    (/\ ev.type = "click" /\ ev.target \in SmoothSources
     /\ tag[ev.target] = "a"
     /\ HashOf(ev.target, ev.href) # <<>>
     /\ ElementWithId(FragmentOf(HashOf(ev.target, ev.href))) # Null)
        => /\ ev.defaultPrevented
           /\ ev.scrollIntoViewCalls =
                << [target |-> ElementWithId(FragmentOf(HashOf(ev.target, ev.href))),
                    behavior |-> "smooth", block |-> "start"] >>

\* C6: a click on a captured link whose fragment is non-empty and names no
\* existing element suppresses the default navigation, issues no scroll and
\* throws no error.
C6_MissingTargetIsNoOp ==
    (/\ ev.type = "click" /\ ev.target \in SmoothSources
     /\ tag[ev.target] = "a"
     /\ HashOf(ev.target, ev.href) # <<>>
     /\ ElementWithId(FragmentOf(HashOf(ev.target, ev.href))) = Null)
        => /\ ev.defaultPrevented
           /\ ev.scrollIntoViewCalls = <<>>
           /\ ev.errors = <<>>

\* C7: a click on a captured element whose fragment is empty or absent does
\* not suppress the default navigation and issues no smooth scroll.
C7_EmptyFragmentFallsThrough ==
    (/\ ev.type = "click" /\ ev.target \in SmoothSources
     /\ HashOf(ev.target, ev.href) \in {<<>>, Undefined})
        => /\ ~ev.defaultPrevented
           /\ ev.scrollIntoViewCalls = <<>>

\* C7 witness: the captured link L1 was clicked while carrying href="#".
C7_Witness ==
    /\ ev.type = "click" /\ ev.target = "L1" /\ ev.href = <<"#">>
    /\ "L1" \in SmoothSources
    /\ ~ev.defaultPrevented

\* C8: no handler run ends in an error, whatever the event and the state; in
\* particular a click on an intercepted element that has no fragment value
\* (a button-styled element that is not a link) completes without throwing
\* and falls through to the default behaviour.
C8_NoHandlerThrows ==
    /\ ev.errors = <<>>
    /\ (/\ ev.type = "click" /\ ev.target \in SmoothSources
        /\ HashOf(ev.target, ev.href) = Undefined) => ~ev.defaultPrevented

\* C9: when no navbar element exists, a scroll event changes no sticky class
\* on any element and raises no error, and the reveal re-evaluation of the
\* same event still runs.
C9_NoNavbarScrollIsNoOp ==
    [][(ev'.type = "scroll" /\ CurrentNavbar = Null) =>
          /\ \A e \in Elements :
                "sticky" \in classList'[e] <=> "sticky" \in classList[e]
          /\ ev'.errors = <<>>
          /\ \E i \in 1..Len(ev'.log) : ev'.log[i] = "revealOnScroll"
          /\ \A e \in revealElements :
                InRevealRange(top'[e]) => "visible" \in classList'[e]
      ]_vars

\* C9 witness: a scroll event past the threshold with no navbar in the
\* document, after which R2 is revealed.
C9_Witness ==
    /\ ev.type = "scroll" /\ CurrentNavbar = Null
    /\ scrollY > StickyThreshold
    /\ "visible" \in classList["R2"]
    /\ Carrying("sticky") = {}

\* C10: an element inserted after initialization is not covered: a click on
\* it is not intercepted (no suppression, no scroll) and changes no active
\* class, and it never receives the visible class.
C10_LateElementsUntouched ==
    [][\A e \in Late :
          /\ "visible" \notin classList[e] => "visible" \notin classList'[e]
          /\ (ev'.type = "click" /\ ev'.target = e) =>
                /\ ~ev'.defaultPrevented
                /\ ev'.scrollIntoViewCalls = <<>>
                /\ \A l \in Elements :
                      "active" \in classList'[l] <=> "active" \in classList[l]
      ]_vars

\* C10 witness: the late link was clicked with href="#s2" while a captured
\* link is active and a captured reveal element is visible; it carries
\* neither class although it is laid out inside the reveal range.
C10_Witness ==
    /\ ev.type = "click" /\ ev.target = "late"
    /\ HashOf("late", ev.href) # <<>>
    /\ Carrying("active") \cap links # {}
    /\ "visible" \in classList["R2"]
    /\ InRevealRange(top["late"])
    /\ classList["late"] \cap {"active", "visible"} = {}

\* C11: listeners of one event type run in registration order: on every
\* scroll event the sticky toggle runs first and the reveal re-evaluation
\* second, and on every click on an element that is both a smooth-scroll
\* source and a captured nav-link the interceptor runs before the highlighter.
C11_RegistrationOrder ==
    /\ ev.type = "scroll" => ev.log = <<"stickyNavbar", "revealOnScroll">>
    /\ (ev.type = "click" /\ ev.target \in SmoothSources \cap links)
          => ev.log = <<"smoothScroll", "activeLink">>

\* C11 witness: L3, a button-styled link in the navigation list, was clicked
\* and both of its listeners ran.
C11_Witness ==
    /\ ev.type = "click" /\ ev.target = "L3"
    /\ "L3" \in SmoothSources \cap links
    /\ Len(ev.log) = 2

\* C12: on a page whose markup marks no link active, no link is active at
\* the start, and no step other than a click on a captured nav-link makes one
\* active: initialization, scroll events and clicks elsewhere leave every
\* nav-link unmarked until the first such click.
C12_NoneActiveBeforeFirstClick ==
    /\ Carrying("active") = {}
    /\ [][(Carrying("active") = {}
            /\ ~(ev'.type = "click" /\ ev'.target \in links'))
          => \A e \in Elements : "active" \notin classList'[e]]_vars

\* C12 witness: after initialization, with the page scrolled past the
\* threshold, the plain link A4 (not a nav-link) was clicked towards an
\* existing target and still no link is active.
C12_Witness ==
    /\ ev.type = "click" /\ ev.target = "A4"
    /\ ev.scrollIntoViewCalls # <<>>
    /\ scrollY > StickyThreshold
    /\ links # {}
    /\ Carrying("active") = {}

\* C13: the scroll handlers are idempotent: in the state a scroll event
\* leaves, running the scroll handlers once more at the same offset and with
\* the same element positions changes no class of any element.
C13_ScrollIdempotent ==
    ev.type = "scroll" =>
        RunScrollListeners(scrollListeners, StartContext(classList),
                           scrollY, top).classList = classList

\* C13 witness: a scroll event past the threshold made the navbar sticky and
\* revealed R2, and a second run at the same offset and positions leaves the
\* classes as they are.
C13_Witness ==
    /\ ev.type = "scroll"
    /\ scrollY > StickyThreshold
    /\ CurrentNavbar = "navbar" /\ "sticky" \in classList["navbar"]
    /\ InRevealRange(top["R2"]) /\ "visible" \in classList["R2"]
    /\ RunScrollListeners(scrollListeners, StartContext(classList),
                          scrollY, top).classList = classList

\* C14: a click on a captured nav-link ends with the active-link update run
\* last and that link the only active one, whatever the smooth-scroll
\* interceptor did before it: fell through, issued a scroll, suppressed the
\* navigation without a scroll, or threw.
C14_HighlightIndependentOfScroll ==
    (ev.type = "click" /\ ev.target \in links) =>
        /\ ev.log # <<>> /\ ev.log[Len(ev.log)] = "activeLink"
        /\ \A l \in links : "active" \in classList[l] <=> l = ev.target

\* C14 witness: L3 was clicked while carrying a fragment that names no
\* element: the navigation was suppressed, no scroll was issued, L3 is active.
C14_Witness ==
    /\ ev.type = "click" /\ ev.target = "L3" /\ "L3" \in links
    /\ ev.defaultPrevented /\ ev.scrollIntoViewCalls = <<>>
    /\ ev.errors = <<>>
    /\ "active" \in classList["L3"]

\* C15: initialization does not evaluate the sticky rule: the
\* DOMContentLoaded step, and every later step that is not a scroll event,
\* leaves the sticky class of every element as it was, so until the first
\* scroll event the navbar has the sticky class of the markup even when the
\* page is already scrolled past 50.
C15_StickyOnlyOnScroll ==
    [][ev'.type # "scroll" =>
          \A e \in Elements :
             "sticky" \in classList'[e] <=> "sticky" \in classList[e]]_vars

\* C15 witness: right after initialization at an offset past the threshold the
\* navbar is in the document without the sticky class, while the reveal check
\* of the same initialization has marked R2.
C15_Witness ==
    /\ ev.type = "DOMContentLoaded"
    /\ scrollY > StickyThreshold
    /\ CurrentNavbar = "navbar"
    /\ "sticky" \notin classList["navbar"]
    /\ "visible" \in classList["R2"]

\* C16: each behaviour touches only its own class: a scroll event changes the
\* active class of no element, and a click changes neither the sticky nor the
\* visible class of any element.
C16_ClassesSeparate ==
    [][/\ ev'.type = "scroll" =>
            \A e \in Elements :
               "active" \in classList'[e] <=> "active" \in classList[e]
       /\ ev'.type = "click" =>
            \A e \in Elements :
               classList'[e] \cap {"sticky", "visible"}
                  = classList[e] \cap {"sticky", "visible"}]_vars

\* C16 witness: a scroll event back to the top of the page took the sticky
\* class off the navbar while L2, clicked earlier, is still the active link.
C16_Witness ==
    /\ ev.type = "scroll"
    /\ scrollY <= StickyThreshold
    /\ CurrentNavbar = "navbar"
    /\ "L2" \in links
    /\ "active" \in classList["L2"]

\* C17: on a page whose markup carries no visible class, no element is
\* visible at the start, and a tracked reveal element gains the visible class
\* only in an initialization or scroll step at which its top edge is strictly
\* less than innerHeight - 100.
C17_VisibleOnlyOnEvidence ==
    /\ Carrying("visible") = {}
    /\ [][\A e \in revealElements' :
             ("visible" \in classList'[e] /\ "visible" \notin classList[e])
                => /\ ev'.type \in {"DOMContentLoaded", "scroll"}
                   /\ InRevealRange(top'[e])]_vars

\* C17 witness: R1 carries the visible class while its top edge is out of
\* the reveal range and the last event was a click.
C17_Witness ==
    /\ ev.type = "click"
    /\ "R1" \in revealElements
    /\ "visible" \in classList["R1"]
    /\ ~InRevealRange(top["R1"])

\* C18: the navbar is looked up at every scroll event: whenever an element
\* with the navbar class is in the document at a scroll event, also one
\* inserted after initialization, the first such element gets the sticky class
\* exactly when the offset exceeds 50, and an element with the navbar class
\* that is not in the document is left unchanged.
C18_NavbarLookedUpPerScroll ==
    [][ev'.type = "scroll" =>
          /\ CurrentNavbar # Null =>
                ("sticky" \in classList'[CurrentNavbar]
                    <=> scrollY' > StickyThreshold)
          /\ \A e \in Elements \ doc :
                "navbar" \in classList[e] => classList'[e] = classList[e]]_vars

\* C18 witness: on a page without sticky in its markup, a scroll event at
\* the top of the page has left the sticky class on a navbar that is no longer
\* in the document (it became sticky while attached and was then removed).
C18_Witness ==
    /\ ev.type = "scroll"
    /\ scrollY <= StickyThreshold
    /\ "navbar" \notin doc
    /\ "sticky" \in classList["navbar"]

====
